---- MODULE Spec2Model ----
(***************************************************************************)
(* Bloom filters over sets and multisets (src/src/bloom_filters.rs), the   *)
(* search for their parameters, and the constructors and generators of     *)
(* sets and multisets, as state machines.                                  *)
(*                                                                         *)
(*   Spec           Set::to_bloom_filter followed by bloom_filter_contains *)
(*   SpecMultiset   Multiset::to_bloom_filter followed by                  *)
(*                  bloom_filter_retrieve_count                            *)
(*   SpecHasher     ElementHasher::hash_element_multiple_seeds             *)
(*   SpecParams     gen_bloom_filter_params and                            *)
(*                  gen_bloom_filter_params_log2, side by side             *)
(*   SpecSearch     the same two searches, followed past round MaxRounds   *)
(*   SpecBuild      either to_bloom_filter, without the queries            *)
(*   SpecNew        Multiset::new (src/src/multisets.rs)                   *)
(*   SpecIntersection  gen_sets_with_intersection (src/src/sets.rs)        *)
(*   SpecUnion      gen_sets_with_union (src/src/sets.rs)                  *)
(*                                                                         *)
(* A Vec<bool> of length n is a function on 0..n-1, an Option is <<>>      *)
(* (None) or <<x>> (Some(x)), a HashSet is a set and a HashMap a function: *)
(* the order in which a HashSet or HashMap is iterated is not fixed by the *)
(* code and is a nondeterministic choice here.                             *)
(***************************************************************************)
EXTENDS Integers, Sequences, FiniteSets, TLC

(***************************************************************************)
(* Bounds of the model.                                                    *)
(***************************************************************************)
\* Elements of a Set are drawn from 0..MaxElement.
MaxElement == 2
\* Elements of a Multiset are drawn from 0..MaxMultisetElement.
MaxMultisetElement == 1
\* A stored count is at most MaxCount.
MaxCount == 2
\* max_multiplicity is drawn from 0..MaxMultiplicity.
MaxMultiplicity == 2
\* bin_count is drawn from 0..MaxBinCount.
MaxBinCount == 2
\* hash_count is drawn from 0..MaxHashCount; seeds are 0..MaxHashCount-1.
MaxHashCount == 2
\* A digest (the usize a hasher returns) is drawn from 0..MaxDigest.
MaxDigest == 1
\* The parameter search is followed for the rounds h = 1..MaxRounds.
MaxRounds == 4
\* The bin count a round evaluates to is drawn from 0..MaxCurrent.
MaxCurrent == 3

\* The slices handed to Multiset::new have at most MaxSliceLen values.
MaxSliceLen == 3

\* set_count is drawn from 0..MaxSetCount.
MaxSetCount == 3
\* element_count is drawn from 0..MaxElementCount.
MaxElementCount == 2
\* universe is drawn from 0..MaxUniverse.
MaxUniverse == 3
\* intersection_size is drawn from 0..MaxIntersectionSize.
MaxIntersectionSize == 2

\* union_size is drawn from 0..MaxUnionSize.
MaxUnionSize == 3

\* Past round MaxRounds the parameter search is followed up to round MaxSearch.
MaxSearch == 7

Max(a, b) == IF a < b THEN b ELSE a

VARIABLES
    self,              \* the type to_bloom_filter is called on: "Set" or "Multiset"
    hasher,            \* the ElementHasher H the calls are instantiated with
    hash64,            \* the function hash64_with_seed computes
    elements,          \* Set::elements
    element_counts,    \* Multiset::element_counts
    bin_count,         \* to_bloom_filter's bin_count
    hash_count,        \* hash_count, of the build and of the queries
    max_multiplicity,  \* max_multiplicity, of the build and of the queries
    bins,              \* the Vec<bool> under construction, then the filter
    pending,           \* what the outer for loop of the build has yet to visit
    cur,               \* the element (Set) or <<element, count>> (Multiset) in hand
    cur_i,             \* Multiset::to_bloom_filter's i
    seed,              \* the inner loop's seed
    element,           \* bloom_filter_contains's element
    hashes,            \* the Vec<usize> hash_element_multiple_seeds returned
    pos,               \* how many indices the for loop of contains has taken
    contains_ret,      \* what bloom_filter_contains returned, <<>> before
    query,             \* bloom_filter_retrieve_count's element
    i,                 \* bloom_filter_retrieve_count's i
    count_ret,         \* what bloom_filter_retrieve_count returned, <<>> before
    seeds,             \* the seeds handed to hash_element_multiple_seeds
    pc,                \* where the program is
    current_at,        \* the bin count the search's expression takes at round h
    h,                 \* gen_bloom_filter_params's h
    previous,          \* gen_bloom_filter_params's previous
    params_ret,        \* what gen_bloom_filter_params returned, <<>> before
    h_log2,            \* gen_bloom_filter_params_log2's h
    previous_log2,     \* gen_bloom_filter_params_log2's previous
    params_log2_ret,   \* what gen_bloom_filter_params_log2 returned, <<>> before
    tail,              \* how the expression goes on after round MaxRounds
    new_elements,      \* Multiset::new's elements
    new_counts,        \* Multiset::new's counts
    zipped,            \* how many pairs collect() has taken from the zip
    collected,         \* the HashMap collect() is filling
    new_ret,           \* what Multiset::new returned, <<>> before
    set_count,         \* the generators' set_count
    element_count,     \* the generators' element_count
    universe,          \* the generators' universe
    intersection_size, \* gen_sets_with_intersection's intersection_size
    union_size,        \* gen_sets_with_union's union_size
    intersection,      \* gen_sets_with_intersection's intersection
    union,             \* gen_sets_with_union's union
    sets,              \* the generators' sets
    set_i,             \* the set the fill loop is at
    to_distribute,     \* the union elements the distribution has yet to visit
    dist_element,      \* the union element the distribution has in hand, or <<>>
    shuffled_elements, \* gen_sets_with_union's shuffled_elements
    gen_ret            \* what the generator returned, <<>> before

vars == <<self, hasher, hash64, elements, element_counts, bin_count, hash_count,
          max_multiplicity, bins, pending, cur, cur_i, seed, element, hashes,
          pos, contains_ret, query, i, count_ret, seeds, pc, current_at, h,
          previous, params_ret, h_log2, previous_log2, params_log2_ret, tail,
          new_elements, new_counts, zipped, collected, new_ret, set_count,
          element_count, universe, intersection_size, union_size,
          intersection, union, sets, set_i, to_distribute, dist_element,
          shuffled_elements, gen_ret>>

\* The state of the parameter search.
paramsVars == <<current_at, h, previous, params_ret, h_log2, previous_log2,
                params_log2_ret, tail>>

\* The state of Multiset::new.
newVars == <<new_elements, new_counts, zipped, collected, new_ret>>

\* The state of gen_sets_with_intersection and gen_sets_with_union.
genVars == <<set_count, element_count, universe, intersection_size, union_size,
             intersection, union, sets, set_i, to_distribute, dist_element,
             shuffled_elements, gen_ret>>

\* The state of the filters and the hashers.
filterVars == <<self, hasher, hash64, elements, element_counts, bin_count,
                hash_count, max_multiplicity, bins, pending, cur, cur_i, seed,
                element, hashes, pos, contains_ret, query, i, count_ret, seeds,
                pc>>

(***************************************************************************)
(* The hashers.  hash64_with_seed, Argon2 and the byte encoding are        *)
(* library code: the encoding and Argon2 are injections into byte strings  *)
(* (a tagged value), and hash64_with_seed is an arbitrary function of a    *)
(* byte string and a seed, fixed for the whole run (the variable hash64).  *)
(* Shake128Hasher and Blake3Hasher use the trait's default batch method as *)
(* Xxh3Hasher does and are, like it, a function of element and seed.       *)
(***************************************************************************)
Hashers == {"Xxh3Hasher", "Argon2Hasher"}

Digests == 0..MaxDigest

\* (*element as u64).encode::<u64>().unwrap()
element_bytes(e) == <<"u64", e>>

\* Argon2::default().hash_password_into(&element_bytes, b"bloom_filter", &mut res)
hash_password_into(pwd) == <<"argon2", pwd[2]>>

hash64_with_seed(bytes, s) == hash64[<<bytes, s>>]

\* The byte strings hasher H hands to hash64_with_seed for the elements of E.
HashInputs(H, E) ==
    IF H = "Argon2Hasher"
    THEN {hash_password_into(element_bytes(e)) : e \in E}
    ELSE {element_bytes(e) : e \in E}

\* Every hash64_with_seed on the elements of E and the seeds 0..n-1.
HashFunctions(H, E, n) == [HashInputs(H, E) \X (0..(n - 1)) -> Digests]

Xxh3Hasher_hash_element(e, s) == hash64_with_seed(element_bytes(e), s)

\* Mutant: the seed is dropped, every round hashes under seed 0.
Argon2Hasher_hash_element_seedless(e, s) ==
    LET res == hash_password_into(element_bytes(e))
    IN  hash64_with_seed(res, 0)

Argon2Hasher_hash_element(e, s) ==
    LET res == hash_password_into(element_bytes(e))
    IN  hash64_with_seed(res, s)

hash_element(H, e, s) ==
    IF H = "Argon2Hasher"
    THEN Argon2Hasher_hash_element(e, s)
    ELSE Xxh3Hasher_hash_element(e, s)

\* The trait's provided method: seeds.iter().map(hash_element).collect()
default_hash_element_multiple_seeds(H, e, ss) ==
    [k \in 1..Len(ss) |-> hash_element(H, e, ss[k])]

\* Mutant: the position in the list is taken for the seed.
Argon2Hasher_hash_element_multiple_seeds_by_position(e, ss) ==
    LET res == hash_password_into(element_bytes(e))
    IN  [k \in 1..Len(ss) |-> hash64_with_seed(res, k - 1)]

\* Argon2Hasher's override: one Argon2 pass, then one hash64 per seed.
Argon2Hasher_hash_element_multiple_seeds(e, ss) ==
    LET res == hash_password_into(element_bytes(e))
    IN  [k \in 1..Len(ss) |-> hash64_with_seed(res, ss[k])]

hash_element_multiple_seeds(H, e, ss) ==
    IF H = "Argon2Hasher"
    THEN Argon2Hasher_hash_element_multiple_seeds(e, ss)
    ELSE default_hash_element_multiple_seeds(H, e, ss)

(***************************************************************************)
(* Set::to_bloom_filter                                                    *)
(***************************************************************************)
Elements == 0..MaxElement

\* Mutant: the bins start true.
NewBins_true(n) == [j \in 0..(n - 1) |-> TRUE]

\* let mut bins = vec![false; bin_count];
NewBins(n) == [j \in 0..(n - 1) |-> FALSE]

Alloc ==
    /\ pc = "start"
    /\ self = "Set"
    /\ bins' = NewBins(bin_count)
    /\ pending' = elements
    /\ pc' = "for_element"
    /\ UNCHANGED <<newVars, genVars, paramsVars,
                   self, hasher, hash64, elements, element_counts, bin_count,
                   hash_count, max_multiplicity, cur, cur_i, seed, element,
                   hashes, pos, contains_ret, query, i, count_ret, seeds>>

\* for element in &self.elements: the next element, in the HashSet's order.
NextElement ==
    /\ pc = "for_element"
    /\ self = "Set"
    /\ \E e \in pending :
        /\ cur' = e
        /\ pending' = pending \ {e}
    /\ seed' = 0
    /\ pc' = IF hash_count = 0 THEN "for_element" ELSE "for_seed"
    /\ UNCHANGED <<newVars, genVars, paramsVars,
                   self, hasher, hash64, elements, element_counts, bin_count,
                   hash_count, max_multiplicity, bins, cur_i, element, hashes,
                   pos, contains_ret, query, i, count_ret, seeds>>

\* Mutant: the bin is flipped instead of set.
SetBin_toggle(b, j) == [b EXCEPT ![j] = ~b[j]]

\* bins[i] = true
SetBin(b, j) == [b EXCEPT ![j] = TRUE]

\* bins[H::hash_element(element, seed as u64) % bin_count] = true;
\* the remainder by a bin_count of zero panics.
InsertSeed ==
    /\ pc = "for_seed"
    /\ IF bin_count = 0
       THEN /\ pc' = "panicked"
            /\ UNCHANGED <<bins, seed>>
       ELSE /\ bins' = SetBin(bins, hash_element(hasher, cur, seed) % bin_count)
            /\ seed' = seed + 1
            /\ pc' = IF seed + 1 < hash_count THEN "for_seed" ELSE "for_element"
    /\ UNCHANGED <<newVars, genVars, paramsVars,
                   self, hasher, hash64, elements, element_counts, bin_count,
                   hash_count, max_multiplicity, pending, cur, cur_i, element,
                   hashes, pos, contains_ret, query, i, count_ret, seeds>>

\* The loop is over: to_bloom_filter returns bins.
ReturnBins ==
    /\ pc = "for_element"
    /\ pending = {}
    /\ pc' = "built"
    /\ UNCHANGED <<newVars, genVars, paramsVars,
                   self, hasher, hash64, elements, element_counts, bin_count,
                   hash_count, max_multiplicity, bins, pending, cur, cur_i,
                   seed, element, hashes, pos, contains_ret, query, i,
                   count_ret, seeds>>

(***************************************************************************)
(* bloom_filter_indices and bloom_filter_contains                          *)
(***************************************************************************)
\* (0..hash_count).map(|seed| seed as u64).collect::<Vec<u64>>()
SeedRange(n) == [k \in 1..n |-> k - 1]

\* bloom_filter_contains is entered: bloom_filter_indices hashes the element
\* under every seed at once; the iterator it returns reduces a hash modulo
\* bin_count only when the loop takes it.
EnterContains(e) ==
    /\ element' = e
    /\ hashes' = hash_element_multiple_seeds(hasher, e, SeedRange(hash_count))
    /\ pos' = 0
    /\ contains_ret' = <<>>
    /\ pc' = "contains"

\* bloom_filter_contains::<H>(&bloom_filter, &e, hash_count) on the built filter
CallContains ==
    /\ pc = "built"
    /\ \E e \in Elements : EnterContains(e)
    /\ UNCHANGED <<newVars, genVars, paramsVars,
                   self, hasher, hash64, elements, element_counts, bin_count,
                   hash_count, max_multiplicity, bins, pending, cur, cur_i,
                   seed, query, i, count_ret, seeds>>

\* bins.len()
BinsLen(b) == Cardinality(DOMAIN b)

\* Mutant: every turn of the loop looks at the first index.
IndexAt_first(hs, k, n) == hs[1] % n

\* .map(move |hash| hash % bin_count), for the hash at position k (from 0)
IndexAt(hs, k, n) == hs[k + 1] % n

\* One turn of: for index in indices { if !bins[index] { return false; } }
ContainsNext ==
    /\ pc = "contains"
    /\ pos < Len(hashes)
    /\ IF BinsLen(bins) = 0
       THEN /\ pc' = "panicked"
            /\ UNCHANGED <<pos, contains_ret>>
       ELSE IF ~bins[IndexAt(hashes, pos, BinsLen(bins))]
       THEN /\ contains_ret' = <<FALSE>>
            /\ pc' = "contains_returned"
            /\ UNCHANGED pos
       ELSE /\ pos' = pos + 1
            /\ UNCHANGED <<pc, contains_ret>>
    /\ UNCHANGED <<newVars, genVars, paramsVars,
                   self, hasher, hash64, elements, element_counts, bin_count,
                   hash_count, max_multiplicity, bins, pending, cur, cur_i,
                   seed, element, hashes, query, i, count_ret, seeds>>

\* The indices are exhausted: true
ContainsTrue ==
    /\ pc = "contains"
    /\ pos = Len(hashes)
    /\ contains_ret' = <<TRUE>>
    /\ pc' = "contains_returned"
    /\ UNCHANGED <<newVars, genVars, paramsVars,
                   self, hasher, hash64, elements, element_counts, bin_count,
                   hash_count, max_multiplicity, bins, pending, cur, cur_i,
                   seed, element, hashes, pos, query, i, count_ret, seeds>>


(***************************************************************************)
(* Multiset::to_bloom_filter                                               *)
(***************************************************************************)
MultisetElements == 0..MaxMultisetElement

\* Every HashMap from some of the elements to a count.
Multisets == UNION {[D -> 0..MaxCount] : D \in SUBSET MultisetElements}

\* Mutant: the element is not scaled by max_multiplicity.
Synthetic_unscaled(e, m, k) == e + k

\* element * max_multiplicity + i (no usize overflows at these sizes)
Synthetic(e, m, k) == e * m + k

\* The synthetic elements a build or a query with max_multiplicity m can hash.
SyntheticElements(m) == 0..(Synthetic(MaxMultisetElement, m, Max(m, MaxCount)) - 1)

AllocMultiset ==
    /\ pc = "start"
    /\ self = "Multiset"
    /\ bins' = NewBins(bin_count)
    /\ pending' = DOMAIN element_counts
    /\ pc' = "for_element"
    /\ UNCHANGED <<newVars, genVars, paramsVars,
                   self, hasher, hash64, elements, element_counts, bin_count,
                   hash_count, max_multiplicity, cur, cur_i, seed, element,
                   hashes, pos, contains_ret, query, i, count_ret, seeds>>

\* for (element, count) in &self.element_counts: the next pair, in the
\* HashMap's order.  With a count or a hash_count of zero the body does nothing.
NextPair ==
    /\ pc = "for_element"
    /\ self = "Multiset"
    /\ \E e \in pending :
        /\ cur' = <<e, element_counts[e]>>
        /\ pending' = pending \ {e}
        /\ pc' = IF element_counts[e] = 0 \/ hash_count = 0
                 THEN "for_element" ELSE "for_synthetic"
    /\ cur_i' = 0
    /\ seed' = 0
    /\ UNCHANGED <<newVars, genVars, paramsVars,
                   self, hasher, hash64, elements, element_counts, bin_count,
                   hash_count, max_multiplicity, bins, element, hashes, pos,
                   contains_ret, query, i, count_ret, seeds>>

\* bins[H::hash_element(&(*element * max_multiplicity + i), seed as u64)
\*      % bin_count] = true;
InsertSynthetic ==
    /\ pc = "for_synthetic"
    /\ IF bin_count = 0
       THEN /\ pc' = "panicked"
            /\ UNCHANGED <<bins, seed, cur_i>>
       ELSE /\ bins' = SetBin(bins,
                    hash_element(hasher,
                        Synthetic(cur[1], max_multiplicity, cur_i), seed)
                    % bin_count)
            /\ IF seed + 1 < hash_count
               THEN /\ seed' = seed + 1
                    /\ UNCHANGED <<cur_i, pc>>
               ELSE /\ seed' = 0
                    /\ cur_i' = cur_i + 1
                    /\ pc' = IF cur_i + 1 < cur[2]
                             THEN "for_synthetic" ELSE "for_element"
    /\ UNCHANGED <<newVars, genVars, paramsVars,
                   self, hasher, hash64, elements, element_counts, bin_count,
                   hash_count, max_multiplicity, pending, cur, element,
                   hashes, pos, contains_ret, query, i, count_ret, seeds>>

(***************************************************************************)
(* bloom_filter_retrieve_count                                             *)
(***************************************************************************)
\* bloom_filter_retrieve_count::<H>(&bloom_filter, &e, hash_count,
\* max_multiplicity) on the built filter
CallRetrieveCount ==
    /\ pc = "built"
    /\ \E e \in MultisetElements : query' = e
    /\ i' = 0
    /\ count_ret' = <<>>
    /\ pc' = "retrieve"
    /\ UNCHANGED <<newVars, genVars, paramsVars,
                   self, hasher, hash64, elements, element_counts, bin_count,
                   hash_count, max_multiplicity, bins, pending, cur, cur_i,
                   seed, element, hashes, pos, contains_ret, seeds>>

\* for i in 0..max_multiplicity: the call of bloom_filter_contains on
\* element * max_multiplicity + i; after the loop, max_multiplicity.
RetrieveProbe ==
    /\ pc = "retrieve"
    /\ IF i < max_multiplicity
       THEN /\ EnterContains(Synthetic(query, max_multiplicity, i))
            /\ UNCHANGED count_ret
       ELSE /\ count_ret' = <<max_multiplicity>>
            /\ pc' = "returned"
            /\ UNCHANGED <<element, hashes, pos, contains_ret>>
    /\ UNCHANGED <<newVars, genVars, paramsVars,
                   self, hasher, hash64, elements, element_counts, bin_count,
                   hash_count, max_multiplicity, bins, pending, cur, cur_i,
                   seed, query, i, seeds>>

\* Mutant: the failed probe is counted.
RetrieveTest_off_by_one ==
    /\ pc = "contains_returned"
    /\ self = "Multiset"
    /\ IF ~contains_ret[1]
       THEN /\ count_ret' = <<i + 1>>
            /\ pc' = "returned"
            /\ UNCHANGED i
       ELSE /\ i' = i + 1
            /\ pc' = "retrieve"
            /\ UNCHANGED count_ret
    /\ UNCHANGED <<newVars, genVars, paramsVars,
                   self, hasher, hash64, elements, element_counts,
                   bin_count, hash_count, max_multiplicity, bins, pending,
                   cur, cur_i, seed, element, hashes, pos, contains_ret,
                   query, seeds>>

\* if !bloom_filter_contains(..) { return i; }
RetrieveTest ==
    /\ pc = "contains_returned"
    /\ self = "Multiset"
    /\ IF ~contains_ret[1]
       THEN /\ count_ret' = <<i>>
            /\ pc' = "returned"
            /\ UNCHANGED i
       ELSE /\ i' = i + 1
            /\ pc' = "retrieve"
            /\ UNCHANGED count_ret
    /\ UNCHANGED <<newVars, genVars, paramsVars,
                   self, hasher, hash64, elements, element_counts, bin_count,
                   hash_count, max_multiplicity, bins, pending, cur, cur_i,
                   seed, element, hashes, pos, contains_ret, query, seeds>>

(***************************************************************************)
(* Spec: a Set is turned into a filter, and the filter is queried.         *)
(***************************************************************************)
\* Multiset::new is not running.
NewIdle ==
    /\ new_elements = <<>>
    /\ new_counts = <<>>
    /\ zipped = 0
    /\ collected = <<>>
    /\ new_ret = <<>>

\* No generator of sets is running.
GenIdle ==
    /\ set_count = 0
    /\ element_count = 0
    /\ universe = 0
    /\ intersection_size = 0
    /\ union_size = 0
    /\ intersection = {}
    /\ union = {}
    /\ sets = <<>>
    /\ set_i = 0
    /\ to_distribute = {}
    /\ dist_element = <<>>
    /\ shuffled_elements = <<>>
    /\ gen_ret = <<>>

\* The parameter search is not running.
ParamsIdle ==
    /\ current_at = <<>>
    /\ tail = "zero"
    /\ h = 1
    /\ previous = <<>>
    /\ params_ret = <<>>
    /\ h_log2 = 1
    /\ previous_log2 = <<>>
    /\ params_log2_ret = <<>>

Init ==
    /\ ParamsIdle
    /\ NewIdle
    /\ GenIdle
    /\ self = "Set"
    /\ hasher \in Hashers
    /\ elements \in SUBSET Elements
    /\ bin_count \in 0..MaxBinCount
    /\ hash_count \in 0..MaxHashCount
    /\ hash64 \in HashFunctions(hasher, Elements, hash_count)
    /\ element_counts = <<>>
    /\ max_multiplicity = 0
    /\ bins = <<>>
    /\ pending = {}
    /\ cur = 0
    /\ cur_i = 0
    /\ seed = 0
    /\ element = 0
    /\ hashes = <<>>
    /\ pos = 0
    /\ contains_ret = <<>>
    /\ query = 0
    /\ i = 0
    /\ count_ret = <<>>
    /\ seeds = <<>>
    /\ pc = "start"

Next ==
    \/ Alloc
    \/ NextElement
    \/ InsertSeed
    \/ ReturnBins
    \/ CallContains
    \/ ContainsNext
    \/ ContainsTrue

Spec == Init /\ [][Next]_vars

(***************************************************************************)
(* SpecMultiset: a Multiset is turned into a filter, and a count is        *)
(* retrieved from the filter.                                              *)
(***************************************************************************)
InitMultiset ==
    /\ ParamsIdle
    /\ NewIdle
    /\ GenIdle
    /\ self = "Multiset"
    /\ hasher \in Hashers
    /\ element_counts \in Multisets
    /\ bin_count \in 0..MaxBinCount
    /\ hash_count \in 0..MaxHashCount
    /\ max_multiplicity \in 0..MaxMultiplicity
    /\ hash64 \in HashFunctions(hasher, SyntheticElements(max_multiplicity),
                                hash_count)
    /\ elements = {}
    /\ bins = <<>>
    /\ pending = {}
    /\ cur = 0
    /\ cur_i = 0
    /\ seed = 0
    /\ element = 0
    /\ hashes = <<>>
    /\ pos = 0
    /\ contains_ret = <<>>
    /\ query = 0
    /\ i = 0
    /\ count_ret = <<>>
    /\ seeds = <<>>
    /\ pc = "start"

NextMultiset ==
    \/ AllocMultiset
    \/ NextPair
    \/ InsertSynthetic
    \/ ReturnBins
    \/ CallRetrieveCount
    \/ RetrieveProbe
    \/ ContainsNext
    \/ ContainsTrue
    \/ RetrieveTest

SpecMultiset == InitMultiset /\ [][NextMultiset]_vars

(***************************************************************************)
(* SpecBuild: either build, without the queries.                           *)
(***************************************************************************)
InitBuild == Init \/ InitMultiset

NextBuild ==
    \/ Alloc
    \/ NextElement
    \/ InsertSeed
    \/ AllocMultiset
    \/ NextPair
    \/ InsertSynthetic
    \/ ReturnBins

SpecBuild == InitBuild /\ [][NextBuild]_vars

(***************************************************************************)
(* SpecHasher: hash_element_multiple_seeds is applied to an element and a  *)
(* list of seeds.                                                          *)
(***************************************************************************)
\* Every list of at most n seeds.
SeedLists(n) == UNION {[1..len -> 0..(n - 1)] : len \in 0..n}

\* H::hash_element_multiple_seeds(element, seeds)
HashMultipleSeeds ==
    /\ pc = "start"
    /\ self = "Hasher"
    /\ hashes' = hash_element_multiple_seeds(hasher, element, seeds)
    /\ pc' = "hashed"
    /\ UNCHANGED <<newVars, genVars, paramsVars,
                   self, hasher, hash64, elements, element_counts,
                   bin_count, hash_count, max_multiplicity, bins, pending,
                   cur, cur_i, seed, element, pos, contains_ret, query, i,
                   count_ret, seeds>>

InitHasher ==
    /\ ParamsIdle
    /\ NewIdle
    /\ GenIdle
    /\ self = "Hasher"
    /\ hasher \in Hashers
    /\ element \in Elements
    /\ seeds \in SeedLists(MaxHashCount)
    /\ hash64 \in HashFunctions(hasher, {element}, MaxHashCount)
    /\ elements = {}
    /\ element_counts = <<>>
    /\ bin_count = 0
    /\ hash_count = 0
    /\ max_multiplicity = 0
    /\ bins = <<>>
    /\ pending = {}
    /\ cur = 0
    /\ cur_i = 0
    /\ seed = 0
    /\ hashes = <<>>
    /\ pos = 0
    /\ contains_ret = <<>>
    /\ query = 0
    /\ i = 0
    /\ count_ret = <<>>
    /\ pc = "start"

NextHasher == HashMultipleSeeds

SpecHasher == InitHasher /\ [][NextHasher]_vars

(***************************************************************************)
(* gen_bloom_filter_params and gen_bloom_filter_params_log2.               *)
(*                                                                         *)
(* current is the value of a floating-point expression of h, cast to       *)
(* usize: the cast sends NaN and every value that is not positive to 0.    *)
(* The model takes the values of the expression, current_at[h], as the     *)
(* input of the search.  max_error_rate.powf(1/h) and                      *)
(* 2f64.powf(max_error_rate_log2/h) are the same number for the same       *)
(* effective rate, so both searches read the same current_at.              *)
(*                                                                         *)
(* What the expression can evaluate to, round after round:                 *)
(*  - for a rate in (0,1): 0 in the first rounds while rate^(1/h) is less  *)
(*    than half an ulp of 1 (1 - rate^(1/h) is then 1.0, its ln 0.0 and    *)
(*    the quotient -inf), as in rounds 1 and 2 of rate 2^-160; a nonzero   *)
(*    value in every later round.  The nonzero values are not assumed to   *)
(*    fall and then rise: once rate^(1/h) rounds to 1.0 the expression is  *)
(*    1 (rate 0.9999999999999984 with 1000000 elements evaluates to        *)
(*    29329, 57488, ... and to 1 from round 29 on);                        *)
(*  - for a rate of 1: 1 in every round; for a rate outside [0,1], a zero  *)
(*    rate or NaN: 0 in every round from the second on (powf of a negative *)
(*    base, or ln of a negative number, is NaN).                           *)
(***************************************************************************)
Rounds == 1..MaxRounds

\* The values the expression can take over the rounds: zeros first, then
\* nonzero values only; or nothing but zeros after the first round.
CurrentValues ==
    {c \in [Rounds -> 0..MaxCurrent] :
        \/ \A r \in Rounds : c[r] = 0 => \A q \in 1..r : c[q] = 0
        \/ \A r \in Rounds : r >= 2 => c[r] = 0}

\* How the values go on after round MaxRounds: 0 in every round (the rate is
\* 0, NaN or outside [0,1]), 1 in every round (rate^(1/h) has rounded to 1.0),
\* or a value above the one of the round before.
Tails == {"zero", "one", "rising"}

\* The tails that can follow the values c of the rounds 1..MaxRounds.
TailsOf(c) ==
    {t \in Tails :
        /\ t = "zero" => c[MaxRounds] = 0
        /\ t = "one" => \A r \in Rounds : c[r] = 0 => \A q \in 1..r : c[q] = 0
        /\ t = "rising" => c[MaxRounds] # 0}

\* let current = (-(h as f64) * ... + 1.).ceil() as usize;
Current(hh) ==
    IF hh \in Rounds
    THEN current_at[hh]
    ELSE CASE tail = "zero" -> 0
           [] tail = "one" -> 1
           [] OTHER -> current_at[MaxRounds] + (hh - MaxRounds)

\* Mutant: the search also stops on a value equal to the previous one.
gen_bloom_filter_params_turn_stops_on_equal(hh, prev, current) ==
    IF prev # <<>> /\ prev[1] <= current
    THEN [h |-> hh, previous |-> prev, ret |-> <<prev[1], hh - 1>>]
    ELSE [h |-> hh + 1,
          previous |-> IF current # 0 THEN <<current>> ELSE prev,
          ret |-> <<>>]

\* Mutant: a round that evaluates to zero becomes the previous one.
gen_bloom_filter_params_turn_keeps_zero(hh, prev, current) ==
    IF prev # <<>> /\ prev[1] < current
    THEN [h |-> hh, previous |-> prev, ret |-> <<prev[1], hh - 1>>]
    ELSE [h |-> hh + 1, previous |-> <<current>>, ret |-> <<>>]

\* One turn of gen_bloom_filter_params's loop, from h = hh and previous = prev,
\* where the expression evaluates to current: the h, previous and return value
\* after it (ret is <<>> when the loop goes on).
gen_bloom_filter_params_turn(hh, prev, current) ==
    IF prev # <<>> /\ prev[1] < current
    THEN [h |-> hh, previous |-> prev, ret |-> <<prev[1], hh - 1>>]
    ELSE [h |-> hh + 1,
          previous |-> IF current # 0 THEN <<current>> ELSE prev,
          ret |-> <<>>]

\* Mutant: the round that stopped the search is returned.
gen_bloom_filter_params_log2_turn_returns_h(hh, prev, current) ==
    IF prev # <<>> /\ prev[1] < current
    THEN [h |-> hh, previous |-> prev, ret |-> <<prev[1], hh>>]
    ELSE [h |-> hh + 1,
          previous |-> IF current # 0 THEN <<current>> ELSE prev,
          ret |-> <<>>]

\* One turn of gen_bloom_filter_params_log2's loop.
gen_bloom_filter_params_log2_turn(hh, prev, current) ==
    IF prev # <<>> /\ prev[1] < current
    THEN [h |-> hh, previous |-> prev, ret |-> <<prev[1], hh - 1>>]
    ELSE [h |-> hh + 1,
          previous |-> IF current # 0 THEN <<current>> ELSE prev,
          ret |-> <<>>]

ParamsTurn ==
    /\ pc = "search"
    /\ params_ret = <<>>
    /\ h \in Rounds
    /\ LET after == gen_bloom_filter_params_turn(h, previous, Current(h))
       IN  /\ h' = after.h
           /\ previous' = after.previous
           /\ params_ret' = after.ret
    /\ UNCHANGED <<newVars, genVars, tail, filterVars,
                   current_at, h_log2, previous_log2,
                   params_log2_ret>>

ParamsLog2Turn ==
    /\ pc = "search"
    /\ params_log2_ret = <<>>
    /\ h_log2 \in Rounds
    /\ LET after == gen_bloom_filter_params_log2_turn(h_log2, previous_log2,
                                                      Current(h_log2))
       IN  /\ h_log2' = after.h
           /\ previous_log2' = after.previous
           /\ params_log2_ret' = after.ret
    /\ UNCHANGED <<newVars, genVars, tail, filterVars,
                   current_at, h, previous, params_ret>>

InitParams ==
    /\ NewIdle
    /\ GenIdle
    /\ current_at \in CurrentValues
    /\ tail \in TailsOf(current_at)
    /\ h = 1
    /\ previous = <<>>
    /\ params_ret = <<>>
    /\ h_log2 = 1
    /\ previous_log2 = <<>>
    /\ params_log2_ret = <<>>
    /\ self = "Params"
    /\ hasher = "Xxh3Hasher"
    /\ hash64 = <<>>
    /\ elements = {}
    /\ element_counts = <<>>
    /\ bin_count = 0
    /\ hash_count = 0
    /\ max_multiplicity = 0
    /\ bins = <<>>
    /\ pending = {}
    /\ cur = 0
    /\ cur_i = 0
    /\ seed = 0
    /\ element = 0
    /\ hashes = <<>>
    /\ pos = 0
    /\ contains_ret = <<>>
    /\ query = 0
    /\ i = 0
    /\ count_ret = <<>>
    /\ seeds = <<>>
    /\ pc = "search"

NextParams ==
    \/ ParamsTurn
    \/ ParamsLog2Turn

SpecParams == InitParams /\ [][NextParams]_vars

(***************************************************************************)
(* SpecNew: Multiset::new (src/src/multisets.rs).  The zip of the two      *)
(* slices is collected into a HashMap pair by pair, in the order of the    *)
(* slices; HashMap's FromIterator inserts each pair, and an insert under a *)
(* key the map already holds replaces the value.                           *)
(***************************************************************************)
\* The filters and the hashers are not running.
FilterIdle ==
    /\ hasher = "Xxh3Hasher"
    /\ hash64 = <<>>
    /\ elements = {}
    /\ element_counts = <<>>
    /\ bin_count = 0
    /\ hash_count = 0
    /\ max_multiplicity = 0
    /\ bins = <<>>
    /\ pending = {}
    /\ cur = 0
    /\ cur_i = 0
    /\ seed = 0
    /\ element = 0
    /\ hashes = <<>>
    /\ pos = 0
    /\ contains_ret = <<>>
    /\ query = 0
    /\ i = 0
    /\ count_ret = <<>>
    /\ seeds = <<>>

\* Every slice of at most n values of S.
Slices(S, n) == UNION {[1..len -> S] : len \in 0..n}

\* Mutant: a key the map already holds keeps its value.
HashMapInsert_keeps_first(m, k, v) ==
    [x \in DOMAIN m \cup {k} |-> IF x \in DOMAIN m THEN m[x] ELSE v]

\* HashMap::insert(k, v), as collect() calls it for each pair.
HashMapInsert(m, k, v) ==
    [x \in DOMAIN m \cup {k} |-> IF x = k THEN v ELSE m[x]]

\* assert_eq!(elements.len(), counts.len());
NewAssert ==
    /\ pc = "new"
    /\ IF Len(new_elements) # Len(new_counts)
       THEN pc' = "panicked"
       ELSE pc' = "collect"
    /\ UNCHANGED <<genVars, paramsVars, newVars, self, hasher, hash64,
                   elements, element_counts, bin_count, hash_count,
                   max_multiplicity, bins, pending, cur, cur_i, seed, element,
                   hashes, pos, contains_ret, query, i, count_ret, seeds>>

\* elements.iter().copied().zip(counts.iter().copied()).collect(): one pair
CollectNext ==
    /\ pc = "collect"
    /\ zipped < Len(new_elements)
    /\ zipped < Len(new_counts)
    /\ collected' = HashMapInsert(collected, new_elements[zipped + 1],
                                  new_counts[zipped + 1])
    /\ zipped' = zipped + 1
    /\ UNCHANGED <<genVars, paramsVars, filterVars, new_elements, new_counts,
                   new_ret>>

\* Multiset { element_counts: ... }, once the zip is exhausted
NewReturn ==
    /\ pc = "collect"
    /\ zipped >= Len(new_elements) \/ zipped >= Len(new_counts)
    /\ new_ret' = <<collected>>
    /\ pc' = "new_returned"
    /\ UNCHANGED <<genVars, paramsVars, new_elements, new_counts, zipped,
                   collected, self, hasher, hash64, elements, element_counts,
                   bin_count, hash_count, max_multiplicity, bins, pending,
                   cur, cur_i, seed, element, hashes, pos, contains_ret,
                   query, i, count_ret, seeds>>

InitNew ==
    /\ ParamsIdle
    /\ GenIdle
    /\ FilterIdle
    /\ self = "Multiset"
    /\ new_elements \in Slices(MultisetElements, MaxSliceLen)
    /\ new_counts \in Slices(0..MaxCount, MaxSliceLen)
    /\ zipped = 0
    /\ collected = <<>>
    /\ new_ret = <<>>
    /\ pc = "new"

NextNew ==
    \/ NewAssert
    \/ CollectNext
    \/ NewReturn

SpecNew == InitNew /\ [][NextNew]_vars

(***************************************************************************)
(* SpecIntersection: gen_sets_with_intersection (src/src/sets.rs).  OsRng  *)
(* is a nondeterministic choice.  A Vec of n sets is a function on 0..n-1. *)
(* rand's sample panics when asked for more indices than the universe has, *)
(* and gen_range panics on the empty range 0..0.                           *)
(***************************************************************************)
\* What Set::random(n, u) can return: sample(&mut OsRng, u, n), collected.
SetRandom(n, u) == {S \in SUBSET (0..(u - 1)) : Cardinality(S) = n}

\* Mutant: the other sets are not looked at.
can_insert_always(ss, idx, e) == TRUE

\* can_insert: at least one of the other sets does not contain the element
can_insert(ss, idx, e) == \E j \in DOMAIN ss : j # idx /\ e \notin ss[j]

\* let intersection = Set::random(intersection_size, universe);
\* let mut sets = (0..set_count).map(|_| intersection.clone()).collect();
SampleIntersection ==
    /\ pc = "gen_sets_with_intersection"
    /\ IF intersection_size > universe
       THEN /\ pc' = "panicked"
            /\ UNCHANGED <<intersection, sets>>
       ELSE /\ intersection' \in SetRandom(intersection_size, universe)
            /\ sets' = [k \in 0..(set_count - 1) |-> intersection']
            /\ pc' = "fill"
    /\ UNCHANGED <<newVars, paramsVars, set_count, element_count, universe,
                   intersection_size, union_size, union, set_i, to_distribute,
                   dist_element, shuffled_elements, gen_ret, self, hasher, hash64, elements,
                   element_counts, bin_count, hash_count, max_multiplicity,
                   bins, pending, cur, cur_i, seed, element, hashes, pos,
                   contains_ret, query, i, count_ret, seeds>>

\* One turn of while sets[i].len() < element_count { ... }
FillIntersection ==
    /\ pc = "fill"
    /\ set_i < set_count
    /\ Cardinality(sets[set_i]) < element_count
    /\ IF universe = 0
       THEN /\ pc' = "panicked"
            /\ UNCHANGED sets
       ELSE /\ \E e \in 0..(universe - 1) :
                   IF can_insert(sets, set_i, e) /\ e \notin sets[set_i]
                   THEN sets' = [sets EXCEPT ![set_i] = @ \cup {e}]
                   ELSE UNCHANGED sets
            /\ UNCHANGED pc
    /\ UNCHANGED <<newVars, paramsVars, set_count, element_count, universe,
                   intersection_size, union_size, intersection, union, set_i,
                   to_distribute, dist_element, shuffled_elements, gen_ret, self, hasher,
                   hash64, elements, element_counts, bin_count, hash_count,
                   max_multiplicity, bins, pending, cur, cur_i, seed, element,
                   hashes, pos, contains_ret, query, i, count_ret, seeds>>

\* for i in 0..set_count: the while loop of sets[i] is over
FillNextSet ==
    /\ pc = "fill"
    /\ set_i < set_count
    /\ Cardinality(sets[set_i]) >= element_count
    /\ set_i' = set_i + 1
    /\ UNCHANGED <<newVars, paramsVars, filterVars, set_count, element_count,
                   universe, intersection_size, union_size, intersection,
                   union, sets, to_distribute, dist_element, shuffled_elements,
                   gen_ret>>

\* sets
ReturnSets ==
    /\ pc = "fill"
    /\ set_i >= set_count
    /\ gen_ret' = <<sets>>
    /\ pc' = "gen_returned"
    /\ UNCHANGED <<newVars, paramsVars, set_count, element_count, universe,
                   intersection_size, union_size, intersection, union, sets,
                   set_i, to_distribute, dist_element, shuffled_elements, self, hasher,
                   hash64, elements, element_counts, bin_count, hash_count,
                   max_multiplicity, bins, pending, cur, cur_i, seed, element,
                   hashes, pos, contains_ret, query, i, count_ret, seeds>>

InitIntersection ==
    /\ ParamsIdle
    /\ NewIdle
    /\ FilterIdle
    /\ self = "Set"
    /\ set_count \in 0..MaxSetCount
    /\ element_count \in 0..MaxElementCount
    /\ universe \in 0..MaxUniverse
    /\ intersection_size \in 0..MaxIntersectionSize
    /\ union_size = 0
    /\ intersection = {}
    /\ union = {}
    /\ sets = <<>>
    /\ set_i = 0
    /\ to_distribute = {}
    /\ dist_element = <<>>
    /\ shuffled_elements = <<>>
    /\ gen_ret = <<>>
    /\ pc = "gen_sets_with_intersection"

NextIntersection ==
    \/ SampleIntersection
    \/ FillIntersection
    \/ FillNextSet
    \/ ReturnSets

SpecIntersection == InitIntersection /\ [][NextIntersection]_vars

(***************************************************************************)
(* SpecUnion: gen_sets_with_union (src/src/sets.rs).  Here sets is a Vec   *)
(* of Vec<usize>: a function on 0..set_count-1 whose values are sequences. *)
(* The order in which the HashSet union.elements is iterated and the       *)
(* result of shuffle are nondeterministic choices.                         *)
(***************************************************************************)
\* The filter state other than pc.
filterData == <<self, hasher, hash64, elements, element_counts, bin_count,
                hash_count, max_multiplicity, bins, pending, cur, cur_i, seed,
                element, hashes, pos, contains_ret, query, i, count_ret,
                seeds>>

\* The values of the Vec v.
VecValues(v) == {v[k] : k \in 1..Len(v)}

\* Every order of the elements of S, as shuffle can leave them.
Shuffles(S) ==
    {v \in [1..Cardinality(S) -> S] : VecValues(v) = S}

\* Mutant: the element is pushed whether the set contains it or not.
push_always(v, e) == Append(v, e)

\* if !set.contains(element) { set.push(*element); }
push_if_absent(v, e) == IF e \in VecValues(v) THEN v ELSE Append(v, e)

\* let union = Set::random(union_size, universe);
\* let mut sets = vec![vec![]; set_count];
SampleUnion ==
    /\ pc = "gen_sets_with_union"
    /\ IF union_size > universe
       THEN /\ pc' = "panicked"
            /\ UNCHANGED <<union, sets, to_distribute>>
       ELSE /\ union' \in SetRandom(union_size, universe)
            /\ sets' = [k \in 0..(set_count - 1) |-> <<>>]
            /\ to_distribute' = union'
            /\ pc' = "distribute"
    /\ UNCHANGED <<newVars, paramsVars, filterData, set_count, element_count,
                   universe, intersection_size, union_size, intersection,
                   set_i, dist_element, shuffled_elements, gen_ret>>

\* for element in &union.elements
DistributeNext ==
    /\ pc = "distribute"
    /\ dist_element = <<>>
    /\ \E e \in to_distribute :
           /\ dist_element' = <<e>>
           /\ to_distribute' = to_distribute \ {e}
    /\ UNCHANGED <<newVars, paramsVars, filterVars, set_count, element_count,
                   universe, intersection_size, union_size, intersection,
                   union, sets, set_i, shuffled_elements, gen_ret>>

\* One turn of the loop { let index = ...; if ... { push; break; } }
DistributeTry ==
    /\ pc = "distribute"
    /\ dist_element # <<>>
    /\ IF set_count = 0
       THEN /\ pc' = "panicked"
            /\ UNCHANGED <<sets, dist_element>>
       ELSE /\ \E index \in 0..(set_count - 1) :
                   IF Len(sets[index]) < element_count
                   THEN /\ sets' = [sets EXCEPT
                                       ![index] = Append(@, dist_element[1])]
                        /\ dist_element' = <<>>
                   ELSE UNCHANGED <<sets, dist_element>>
            /\ UNCHANGED pc
    /\ UNCHANGED <<newVars, paramsVars, filterData, set_count, element_count,
                   universe, intersection_size, union_size, intersection,
                   union, set_i, to_distribute, shuffled_elements, gen_ret>>

\* for set in sets.iter_mut(): the next set, and the shuffle of the union
FillUnionShuffle ==
    /\ \/ pc = "distribute" /\ dist_element = <<>> /\ to_distribute = {}
       \/ pc = "filled"
    /\ set_i < set_count
    /\ shuffled_elements' \in Shuffles(union)
    /\ pc' = "while"
    /\ UNCHANGED <<newVars, paramsVars, filterData, set_count, element_count,
                   universe, intersection_size, union_size, intersection,
                   union, sets, set_i, to_distribute, dist_element, gen_ret>>

\* One turn of while set.len() < element_count { ... }
FillUnion ==
    /\ pc = "while"
    /\ Len(sets[set_i]) < element_count
    /\ IF shuffled_elements = <<>>
       THEN /\ pc' = "panicked"
            /\ UNCHANGED <<sets, shuffled_elements>>
       ELSE /\ sets' = [sets EXCEPT
                           ![set_i] = push_if_absent(@, Head(shuffled_elements))]
            /\ shuffled_elements' = Tail(shuffled_elements)
            /\ UNCHANGED pc
    /\ UNCHANGED <<newVars, paramsVars, filterData, set_count, element_count,
                   universe, intersection_size, union_size, intersection,
                   union, set_i, to_distribute, dist_element, gen_ret>>

\* The while loop of a set is over.
FillUnionDone ==
    /\ pc = "while"
    /\ Len(sets[set_i]) >= element_count
    /\ set_i' = set_i + 1
    /\ pc' = "filled"
    /\ UNCHANGED <<newVars, paramsVars, filterData, set_count, element_count,
                   universe, intersection_size, union_size, intersection,
                   union, sets, to_distribute, dist_element,
                   shuffled_elements, gen_ret>>

\* sets.iter().map(|set| Set::new(set)).collect()
ReturnUnionSets ==
    /\ \/ pc = "distribute" /\ dist_element = <<>> /\ to_distribute = {}
       \/ pc = "filled"
    /\ set_i >= set_count
    /\ gen_ret' = <<[k \in DOMAIN sets |-> VecValues(sets[k])]>>
    /\ pc' = "gen_returned"
    /\ UNCHANGED <<newVars, paramsVars, filterData, set_count, element_count,
                   universe, intersection_size, union_size, intersection,
                   union, sets, set_i, to_distribute, dist_element,
                   shuffled_elements>>

InitUnion ==
    /\ ParamsIdle
    /\ NewIdle
    /\ FilterIdle
    /\ self = "Set"
    /\ set_count \in 0..MaxSetCount
    /\ element_count \in 0..MaxElementCount
    /\ universe \in 0..MaxUniverse
    /\ union_size \in 0..MaxUnionSize
    /\ intersection_size = 0
    /\ intersection = {}
    /\ union = {}
    /\ sets = <<>>
    /\ set_i = 0
    /\ to_distribute = {}
    /\ dist_element = <<>>
    /\ shuffled_elements = <<>>
    /\ gen_ret = <<>>
    /\ pc = "gen_sets_with_union"

NextUnion ==
    \/ SampleUnion
    \/ DistributeNext
    \/ DistributeTry
    \/ FillUnionShuffle
    \/ FillUnion
    \/ FillUnionDone
    \/ ReturnUnionSets

SpecUnion == InitUnion /\ [][NextUnion]_vars

(***************************************************************************)
(* SpecSearch: the two searches followed past round MaxRounds, where the   *)
(* expression goes on as tail says, up to round MaxSearch.  The loop has   *)
(* no exit but its return, so a search that has not returned takes its     *)
(* next turn: each search is weakly fair.  h is a usize; the rounds near   *)
(* its overflow are out of reach and not followed.                         *)
(***************************************************************************)
\* The rounds followed after round MaxRounds.
RoundsBeyond == (MaxRounds + 1)..MaxSearch

\* A turn of gen_bloom_filter_params's loop in a round after MaxRounds.
ParamsTurnBeyond ==
    /\ pc = "search"
    /\ params_ret = <<>>
    /\ h \in RoundsBeyond
    /\ LET after == gen_bloom_filter_params_turn(h, previous, Current(h))
       IN  /\ h' = after.h
           /\ previous' = after.previous
           /\ params_ret' = after.ret
    /\ UNCHANGED <<newVars, genVars, tail, filterVars, current_at, h_log2,
                   previous_log2, params_log2_ret>>

\* A turn of gen_bloom_filter_params_log2's loop in a round after MaxRounds.
ParamsLog2TurnBeyond ==
    /\ pc = "search"
    /\ params_log2_ret = <<>>
    /\ h_log2 \in RoundsBeyond
    /\ LET after == gen_bloom_filter_params_log2_turn(h_log2, previous_log2,
                                                      Current(h_log2))
       IN  /\ h_log2' = after.h
           /\ previous_log2' = after.previous
           /\ params_log2_ret' = after.ret
    /\ UNCHANGED <<newVars, genVars, tail, filterVars, current_at, h,
                   previous, params_ret>>

NextSearch ==
    \/ ParamsTurn
    \/ ParamsLog2Turn
    \/ ParamsTurnBeyond
    \/ ParamsLog2TurnBeyond

SpecSearch ==
    /\ InitParams
    /\ [][NextSearch]_vars
    /\ WF_vars(ParamsTurn \/ ParamsTurnBeyond)
    /\ WF_vars(ParamsLog2Turn \/ ParamsLog2TurnBeyond)

(***************************************************************************)
(* Properties.                                                             *)
(***************************************************************************)
\* The seeds a build or a query with hash_count rounds uses.
SeedsUsed == 0..(hash_count - 1)

\* The bin of the filter b that element x is sent to under seed s.
BinOf(b, x, s) == hash_element(hasher, x, s) % BinsLen(b)

\* Every bin of x is set in b.
AllBinsSet(b, x) == \A s \in SeedsUsed : b[BinOf(b, x, s)]

\* C1: no false negatives.  With bin_count >= 1 the build and the query do
\* not panic, and bloom_filter_contains, on the filter built from the set
\* with the same hasher and hash_count, returns true for every element of
\* the set.
NoFalseNegatives ==
    bin_count >= 1 =>
        /\ pc # "panicked"
        /\ (pc = "contains_returned" /\ element \in elements)
               => contains_ret = <<TRUE>>

\* C1's case: an element of the set was looked up under Argon2Hasher with two
\* rounds, in a filter that is not full.
NoFalseNegativesWitness ==
    /\ pc = "contains_returned"
    /\ hasher = "Argon2Hasher"
    /\ element \in elements
    /\ hash_count = 2
    /\ bin_count = 2
    /\ \E j \in DOMAIN bins : ~bins[j]
    /\ contains_ret = <<TRUE>>

\* C2: hash_element_multiple_seeds returns one hash per seed, in the order of
\* the seeds, each the hash_element of the element under that seed, for the
\* default method and for Argon2Hasher's override.
BatchEqualsPerSeed ==
    pc = "hashed" =>
        /\ Len(hashes) = Len(seeds)
        /\ \A k \in 1..Len(seeds) :
               hashes[k] = hash_element(hasher, element, seeds[k])

\* C2's case: Argon2Hasher's override hashed two seeds given out of order,
\* and the two hashes differ.
BatchEqualsPerSeedWitness ==
    /\ pc = "hashed"
    /\ hasher = "Argon2Hasher"
    /\ seeds = <<1, 0>>
    /\ hashes[1] # hashes[2]

\* C8: Set::to_bloom_filter returns bin_count bins, of which bin j is true
\* exactly when some element of the set and some seed below hash_count hash
\* to j modulo bin_count; the set, the hasher and the parameters are left as
\* they were.
BuiltFilterIsImage ==
    /\ [](pc = "built" =>
            /\ DOMAIN bins = 0..(bin_count - 1)
            /\ \A j \in DOMAIN bins :
                   bins[j] <=> \E e \in elements, s \in SeedsUsed :
                                   hash_element(hasher, e, s) % bin_count = j)
    /\ [][UNCHANGED <<elements, hasher, hash64, bin_count, hash_count>>]_vars

\* C8's case: a filter was built from two elements or more and has a bin set
\* and a bin clear.
BuiltFilterIsImageWitness ==
    /\ pc = "built"
    /\ Cardinality(elements) >= 2
    /\ hash_count >= 1
    /\ \E j, k \in DOMAIN bins : bins[j] /\ ~bins[k]

\* C9: bloom_filter_contains returns true exactly when the bin of every seed
\* below hash_count is set; when it returns false it has stopped at the first
\* seed whose bin is clear; it leaves the bins as they were.
ContainsIsConjunction ==
    /\ [](pc = "contains_returned" =>
            /\ contains_ret = <<AllBinsSet(bins, element)>>
            /\ contains_ret = <<FALSE>> =>
                   /\ pos \in SeedsUsed
                   /\ ~bins[BinOf(bins, element, pos)]
                   /\ \A s \in 0..(pos - 1) : bins[BinOf(bins, element, s)])
    /\ [][pc = "contains" => bins' = bins]_vars

\* C9's case: the lookup returned false at the second seed, the bin of the
\* first being set.
ContainsIsConjunctionWitness ==
    /\ pc = "contains_returned"
    /\ contains_ret = <<FALSE>>
    /\ pos = 1
    /\ bins[BinOf(bins, element, 0)]

\* The synthetic elements the build of the multiset inserts.
Inserted ==
    UNION {{Synthetic(e, max_multiplicity, k) :
               k \in 0..(element_counts[e] - 1)} :
           e \in DOMAIN element_counts}

\* The synthetic element the k-th probe of the query looks up.
Probe(k) == Synthetic(query, max_multiplicity, k)

\* The probes bloom_filter_retrieve_count made before it returned n.
ProbesMade(n) == {k \in 0..(max_multiplicity - 1) : k <= n}

\* The count the multiset holds for the queried element.
StoredCount ==
    IF query \in DOMAIN element_counts THEN element_counts[query] ELSE 0

\* C3: multiset round trip.  When every stored count is between 1 and
\* max_multiplicity and no probe made reported a synthetic element present
\* that was never inserted, bloom_filter_retrieve_count returns the stored
\* count of a stored element and 0 for any other element.
RoundTrip ==
    ( /\ pc = "returned"
      /\ \A e \in DOMAIN element_counts :
             element_counts[e] \in 1..max_multiplicity
      /\ \A k \in ProbesMade(count_ret[1]) :
             Probe(k) \notin Inserted => ~AllBinsSet(bins, Probe(k)) )
    => count_ret = <<StoredCount>>

\* C3's case: of two stored elements, one with count 1 below a
\* max_multiplicity of 2 was queried, its second probe was of a synthetic
\* element never inserted, and the filter did not report it.
RoundTripWitness ==
    /\ pc = "returned"
    /\ DOMAIN element_counts = MultisetElements
    /\ \A e \in DOMAIN element_counts :
           element_counts[e] \in 1..max_multiplicity
    /\ max_multiplicity = 2
    /\ hash_count = 2
    /\ element_counts[query] = 1
    /\ Probe(1) \notin Inserted
    /\ ~AllBinsSet(bins, Probe(1))
    /\ count_ret = <<1>>

\* C4 as stated: for every multiset, the count retrieved for a stored element
\* is at least its stored count.
RetrieveCountNeverUnderstates ==
    (pc = "returned" /\ query \in DOMAIN element_counts)
        => count_ret[1] >= element_counts[query]

\* C4, amended: the count retrieved for an element stored with a count of at
\* most max_multiplicity is at least that count, whatever false positives
\* occur and whatever the other counts are.
RetrieveCountNeverUnderstatesWithinLimit ==
    ( /\ pc = "returned"
      /\ query \in DOMAIN element_counts
      /\ element_counts[query] <= max_multiplicity )
    => count_ret[1] >= element_counts[query]

\* C4's case: a false positive made the retrieved count exceed the stored one.
RetrieveCountNeverUnderstatesWitness ==
    /\ pc = "returned"
    /\ query \in DOMAIN element_counts
    /\ element_counts[query] = 1
    /\ max_multiplicity = 2
    /\ hash_count >= 1
    /\ Probe(1) \notin Inserted
    /\ count_ret = <<2>>

\* C5: saturation.  bloom_filter_retrieve_count returns a value in
\* 0..max_multiplicity, and returns max_multiplicity exactly when every one of
\* the max_multiplicity probes is reported present.
Saturation ==
    pc = "returned" =>
        /\ count_ret[1] \in 0..max_multiplicity
        /\ count_ret[1] = max_multiplicity
               <=> \A k \in 0..(max_multiplicity - 1) :
                       AllBinsSet(bins, Probe(k))

\* C5's case: with a max_multiplicity of 2, a query whose two probes were
\* both found returned 2, and (another state) a query returned less.
SaturationWitness ==
    /\ pc = "returned"
    /\ max_multiplicity = 2
    /\ hash_count = 2
    /\ bin_count = 2
    /\ \E j \in DOMAIN bins : ~bins[j]
    /\ count_ret = <<2>>

\* The rounds the search evaluated before the one that stopped it.
RoundsBefore(hh) == 1..(hh - 1)

\* C6 as stated: the bin count gen_bloom_filter_params returns is the
\* smallest the expression takes over every round.
ReturnsSmallestOfAllRounds ==
    params_ret # <<>> =>
        /\ \E r \in Rounds : Current(r) = params_ret[1]
        /\ \A r \in Rounds : params_ret[1] <= Current(r)

\* C6, amended: the bin count gen_bloom_filter_params returns is not zero and
\* is the smallest of the nonzero values the expression took in the rounds
\* before the one that stopped the search, and it is smaller than the value
\* of the round that stopped it; rounds that evaluate to zero and rounds after
\* the stop are not considered.
ReturnsSmallestNonzeroBeforeStop ==
    params_ret # <<>> =>
        /\ params_ret[1] # 0
        /\ \E r \in RoundsBefore(h) : Current(r) = params_ret[1]
        /\ \A r \in RoundsBefore(h) :
               Current(r) # 0 => params_ret[1] <= Current(r)
        /\ params_ret[1] < Current(h)

\* C6's case: the search returned after a round that evaluated to zero and
\* two rounds that did not, the second smaller than the first.
ReturnsSmallestNonzeroBeforeStopWitness ==
    /\ params_ret # <<>>
    /\ h = 4
    /\ Current(1) = 0
    /\ Current(3) < Current(2)
    /\ Current(3) # 0

InsertedPairs ==
    IF self = "Set"
    THEN LET done == IF pc = "for_seed"
                     THEN (elements \ pending) \ {cur}
                     ELSE elements \ pending
         IN  (done \X SeedsUsed)
             \cup (IF pc = "for_seed"
                   THEN {<<cur, s>> : s \in 0..(seed - 1)} ELSE {})
    ELSE LET done == IF pc = "for_synthetic"
                     THEN (DOMAIN element_counts \ pending) \ {cur[1]}
                     ELSE DOMAIN element_counts \ pending
         IN  UNION {{Synthetic(e, max_multiplicity, k) :
                        k \in 0..(element_counts[e] - 1)} \X SeedsUsed :
                    e \in done}
             \cup (IF pc = "for_synthetic"
                   THEN ({Synthetic(cur[1], max_multiplicity, k) :
                             k \in 0..(cur_i - 1)} \X SeedsUsed)
                        \cup {<<Synthetic(cur[1], max_multiplicity, cur_i), s>> :
                                 s \in 0..(seed - 1)}
                   ELSE {})

\* The filter b after x is inserted under the seeds s, s+1, .., hash_count-1.
RECURSIVE InsertFromSeed(_, _, _)
InsertFromSeed(b, x, s) ==
    IF s >= hash_count
    THEN b
    ELSE InsertFromSeed(
             SetBin(b, hash_element(hasher, x, s) % bin_count), x, s + 1)

\* The filter b after the copies k, k+1, .., c-1 of element e are inserted.
RECURSIVE InsertFromCopy(_, _, _, _)
InsertFromCopy(b, e, c, k) ==
    IF k >= c
    THEN b
    ELSE InsertFromCopy(
             InsertFromSeed(b, Synthetic(e, max_multiplicity, k), 0),
             e, c, k + 1)

\* The filter b after the n-th and later entries of order are inserted.
RECURSIVE InsertInOrder(_, _, _)
InsertInOrder(b, order, n) ==
    IF n > Len(order)
    THEN b
    ELSE InsertInOrder(
             IF self = "Set"
             THEN InsertFromSeed(b, order[n], 0)
             ELSE InsertFromCopy(b, order[n], element_counts[order[n]], 0),
             order, n + 1)

\* Every order in which the members of S can be visited.
Orders(S) ==
    {o \in [1..Cardinality(S) -> S] :
        \A a, b \in 1..Cardinality(S) : a # b => o[a] # o[b]}

\* What the build iterates over.
Iterated == IF self = "Set" THEN elements ELSE DOMAIN element_counts

\* C10: insertion is idempotent and independent of the order.  During a
\* build a bin only changes from false to true; inserting again any pair
\* already inserted leaves the filter as it is; the filter returned is the
\* one every order of the elements (or of the pairs of the multiset) gives.
InsertionIdempotentAnyOrder ==
    /\ [][\A j \in DOMAIN bins : bins[j] => bins'[j]]_vars
    /\ [](pc \in {"for_element", "for_seed", "for_synthetic", "built"} =>
            \A p \in InsertedPairs :
                SetBin(bins, hash_element(hasher, p[1], p[2]) % bin_count)
                    = bins)
    /\ [](pc = "built" =>
            \A o \in Orders(Iterated) :
                InsertInOrder(NewBins(bin_count), o, 1) = bins)

\* C10's case: the build of a multiset of two elements, each with a count of
\* one or more, with two rounds has returned a filter that is not full, two
\* of the inserted pairs having hit one bin.
InsertionIdempotentAnyOrderWitness ==
    /\ pc = "built"
    /\ self = "Multiset"
    /\ Cardinality(Iterated) >= 2
    /\ \A e \in Iterated : element_counts[e] >= 1
    /\ hash_count = 2
    /\ \E j \in DOMAIN bins : ~bins[j]
    /\ \E p, q \in InsertedPairs :
           /\ p # q
           /\ hash_element(hasher, p[1], p[2]) % bin_count
                  = hash_element(hasher, q[1], q[2]) % bin_count

\* The positions of the slice ss.
Positions(ss) == 1..Len(ss)

\* The values of the slice ss.
Values(ss) == {ss[k] : k \in Positions(ss)}

\* C11, as stated: Multiset::new aborts when elements and counts differ in
\* length and returns no Multiset; when the lengths are equal it returns the
\* multiset mapping each element to the count at the same position.
NewMapsEachPosition ==
    /\ Len(new_elements) # Len(new_counts)
           => new_ret = <<>> /\ pc \in {"new", "panicked"}
    /\ Len(new_elements) = Len(new_counts) => pc # "panicked"
    /\ pc = "new_returned"
           => /\ new_ret # <<>>
              /\ DOMAIN new_ret[1] = Values(new_elements)
              /\ \A k \in Positions(new_elements) :
                     new_ret[1][new_elements[k]] = new_counts[k]

\* C11, amended: Multiset::new aborts when elements and counts differ in
\* length and returns no Multiset; when the lengths are equal it returns the
\* multiset over the values of elements that maps each of them to the count
\* at the last position where it occurs in elements (the same position when
\* the elements are distinct).
NewMapsLastPosition ==
    /\ Len(new_elements) # Len(new_counts)
           => new_ret = <<>> /\ pc \in {"new", "panicked"}
    /\ Len(new_elements) = Len(new_counts) => pc # "panicked"
    /\ pc = "new_returned"
           => /\ new_ret # <<>>
              /\ DOMAIN new_ret[1] = Values(new_elements)
              /\ \A k \in Positions(new_elements) :
                     (\A l \in Positions(new_elements) :
                          l > k => new_elements[l] # new_elements[k])
                         => new_ret[1][new_elements[k]] = new_counts[k]

\* Multiset::new has returned for an element given twice with two counts.
NewMapsLastPositionWitness ==
    /\ pc = "new_returned"
    /\ \E k, l \in Positions(new_elements) :
           /\ k < l
           /\ new_elements[k] = new_elements[l]
           /\ new_counts[k] # new_counts[l]

\* The elements all the sets of ss have in common (ss is not empty).
CommonElements(ss) == {e \in UNION {ss[k] : k \in DOMAIN ss} :
                          \A k \in DOMAIN ss : e \in ss[k]}

\* The sets of ss keep the sampled intersection as their common elements.
KeepsIntersection(ss) ==
    DOMAIN ss # {}
        => /\ CommonElements(ss) = intersection
           /\ Cardinality(CommonElements(ss)) = intersection_size

\* C12, as stated: gen_sets_with_intersection returns set_count sets, each
\* with exactly element_count elements all below universe, whose common
\* intersection has exactly intersection_size elements; after every
\* insertion of the fill loop the intersection of all sets is still the
\* sampled intersection.
ReturnsSetsOfElementCount ==
    /\ pc = "fill" => KeepsIntersection(sets)
    /\ pc = "gen_returned"
           => /\ gen_ret # <<>>
              /\ DOMAIN gen_ret[1] = 0..(set_count - 1)
              /\ \A k \in DOMAIN gen_ret[1] :
                     /\ Cardinality(gen_ret[1][k]) = element_count
                     /\ gen_ret[1][k] \subseteq 0..(universe - 1)
              /\ KeepsIntersection(gen_ret[1])

\* C12, amended: gen_sets_with_intersection returns set_count sets of
\* elements below universe, each with exactly element_count elements when
\* intersection_size <= element_count and with exactly the intersection_size
\* sampled elements otherwise; for set_count >= 1 their common intersection
\* is the sampled intersection, of intersection_size elements, after every
\* insertion of the fill loop and on return.
ReturnsSetsAroundIntersection ==
    /\ pc = "fill" => KeepsIntersection(sets)
    /\ pc = "gen_returned"
           => /\ gen_ret # <<>>
              /\ DOMAIN gen_ret[1] = 0..(set_count - 1)
              /\ \A k \in DOMAIN gen_ret[1] :
                     /\ Cardinality(gen_ret[1][k])
                            = Max(element_count, intersection_size)
                     /\ intersection_size > element_count
                            => gen_ret[1][k] = intersection
                     /\ gen_ret[1][k] \subseteq 0..(universe - 1)
              /\ KeepsIntersection(gen_ret[1])

\* gen_sets_with_intersection has returned sets that were filled beyond a
\* sampled intersection that is not empty.
ReturnsSetsAroundIntersectionWitness ==
    /\ pc = "gen_returned"
    /\ set_count >= 2
    /\ intersection # {}
    /\ \A k \in DOMAIN gen_ret[1] : gen_ret[1][k] # intersection

\* The precondition C13 states for gen_sets_with_union.
UnionSizeFits ==
    /\ element_count <= union_size
    /\ union_size <= set_count * element_count

\* C13: for element_count <= union_size <= set_count * element_count,
\* gen_sets_with_union returns set_count sets, each with exactly
\* element_count distinct elements, whose union is exactly the sampled union
\* of union_size elements: no Vec ever holds an element twice or an element
\* outside the union, every union element the distribution has visited is
\* in at least one Vec, and nothing panics when the universe has union_size
\* elements to sample.
ReturnsSetsWithUnion ==
    UnionSizeFits
        => /\ union_size <= universe => pc # "panicked"
           /\ pc \in {"distribute", "while", "filled", "gen_returned"}
                  => /\ Cardinality(union) = union_size
                     /\ \A k \in DOMAIN sets :
                            /\ VecValues(sets[k]) \subseteq union
                            /\ Cardinality(VecValues(sets[k])) = Len(sets[k])
                            /\ Len(sets[k]) <= element_count
                     /\ \A e \in union \ (to_distribute \cup VecValues(dist_element)) :
                            \E k \in DOMAIN sets : e \in VecValues(sets[k])
           /\ pc = "gen_returned"
                  => /\ gen_ret # <<>>
                     /\ DOMAIN gen_ret[1] = 0..(set_count - 1)
                     /\ \A k \in DOMAIN gen_ret[1] :
                            Cardinality(gen_ret[1][k]) = element_count
                     /\ UNION {gen_ret[1][k] : k \in DOMAIN gen_ret[1]} = union

\* gen_sets_with_union has returned several sets that overlap: the union is
\* smaller than set_count * element_count, so the fill loop added elements.
ReturnsSetsWithUnionWitness ==
    /\ pc = "gen_returned"
    /\ UnionSizeFits
    /\ set_count >= 2
    /\ element_count >= 2
    /\ union_size < set_count * element_count
    /\ \E k, l \in DOMAIN gen_ret[1] :
           k # l /\ gen_ret[1][k] \cap gen_ret[1][l] # {}

\* The previous bin count the search tracks on entering round hh: the value
\* of the last round before hh that did not evaluate to zero, <<>> if none.
Tracked(hh) ==
    LET nonzero == {r \in RoundsBefore(hh) : Current(r) # 0}
    IN  IF nonzero = {}
        THEN <<>>
        ELSE <<Current(CHOOSE r \in nonzero : \A q \in nonzero : q <= r)>>

\* The tracked previous bin count is smaller than the bin count of round hh.
Increases(hh) == Tracked(hh) # <<>> /\ Tracked(hh)[1] < Current(hh)

\* C14: the hash_count gen_bloom_filter_params returns is the round that
\* produced the returned bin_count: the search stops at the first round h
\* where the tracked previous bin count is smaller than bin_count(h) and
\* returns (bin_count(h-1), h-1), also after rounds that evaluated to zero
\* and were skipped when updating the tracker.
StopsAtFirstIncrease ==
    /\ params_ret = <<>> /\ h \in Rounds
           => /\ previous = Tracked(h)
              /\ \A r \in RoundsBefore(h) : ~Increases(r)
    /\ params_ret # <<>>
           => /\ Increases(h)
              /\ \A r \in RoundsBefore(h) : ~Increases(r)
              /\ params_ret = <<Current(h - 1), h - 1>>
              /\ Current(params_ret[2]) = params_ret[1]

\* C14's case: the search returned (bin_count(2), 2) at round 3, after a
\* first round that evaluated to zero and was skipped.
StopsAtFirstIncreaseWitness ==
    /\ params_ret # <<>>
    /\ h = 3
    /\ Current(1) = 0
    /\ params_ret = <<Current(2), 2>>

\* C15, as stated: a count at or above max_multiplicity is not detected and
\* yields an under-reported count rather than a crash: with an element stored
\* with count c >= max_multiplicity, to_bloom_filter and
\* bloom_filter_retrieve_count (on a filter that has bins) complete without
\* error, and the count retrieved for that element is strictly smaller than c.
AtOrOverLimitUnderReported ==
    /\ (bin_count >= 1 /\ \E e \in DOMAIN element_counts :
                              element_counts[e] >= max_multiplicity)
           => pc # "panicked"
    /\ ( /\ pc = "returned"
         /\ query \in DOMAIN element_counts
         /\ element_counts[query] >= max_multiplicity )
           => count_ret[1] < element_counts[query]

\* C15, amended: a count above max_multiplicity is not detected and yields
\* an under-reported count rather than a crash: with an element stored with
\* count c >= max_multiplicity, to_bloom_filter and
\* bloom_filter_retrieve_count (on a filter that has bins) complete without
\* error and the count retrieved for that element is max_multiplicity, which
\* is strictly smaller than c when c > max_multiplicity and is c itself, not
\* under-reported, when c = max_multiplicity.
OverLimitUnderReported ==
    /\ (bin_count >= 1 /\ \E e \in DOMAIN element_counts :
                              element_counts[e] >= max_multiplicity)
           => pc # "panicked"
    /\ ( /\ pc = "returned"
         /\ query \in DOMAIN element_counts
         /\ element_counts[query] >= max_multiplicity )
           => /\ count_ret[1] = max_multiplicity
              /\ element_counts[query] > max_multiplicity
                     => count_ret[1] < element_counts[query]
              /\ element_counts[query] = max_multiplicity
                     => count_ret[1] = element_counts[query]

\* C15's case: an element stored twice under a max_multiplicity of 1 was
\* queried in a filter with hashing rounds, and 1 was retrieved.
OverLimitUnderReportedWitness ==
    /\ pc = "returned"
    /\ query \in DOMAIN element_counts
    /\ element_counts[query] = 2
    /\ max_multiplicity = 1
    /\ hash_count >= 1
    /\ bin_count = 2
    /\ count_ret = <<1>>

\* The rounds the search is followed for.
RoundsFollowed == 1..MaxSearch

\* The rounds in which the tracker has seen the value the tail repeats.
SteadyRounds == (MaxRounds + 2)..MaxSearch

\* The bin counts never strictly increase from one round to the next.
NeverIncreases == \A r \in RoundsFollowed : Current(r + 1) <= Current(r)

\* From some round on, the bin counts strictly increase in every round.
EventuallyIncreases ==
    \E H \in RoundsFollowed :
        \A r \in RoundsFollowed : r >= H => Current(r) < Current(r + 1)

\* C16: the optimizer loop performs no range check and returns only if some
\* round h has a nonzero tracked previous bin count strictly smaller than
\* bin_count(h).  When the bin counts never strictly increase (every round
\* zero, or the same value), gen_bloom_filter_params and
\* gen_bloom_filter_params_log2 never return and raise no error: from the
\* second round after MaxRounds on, a turn then only advances h.  When the
\* bin counts are eventually strictly increasing, both terminate.
ReturnsOnlyOnIncrease ==
    /\ [](pc = "search")
    /\ [][params_ret' # params_ret
              => /\ previous # <<>>
                 /\ previous[1] # 0
                 /\ previous[1] < Current(h)]_vars
    /\ [][params_log2_ret' # params_log2_ret
              => /\ previous_log2 # <<>>
                 /\ previous_log2[1] # 0
                 /\ previous_log2[1] < Current(h_log2)]_vars
    /\ [](NeverIncreases => params_ret = <<>> /\ params_log2_ret = <<>>)
    /\ [][(NeverIncreases /\ h \in SteadyRounds /\ h' # h)
              => h' = h + 1 /\ previous' = previous /\ params_ret' = <<>>]_vars
    /\ [][(NeverIncreases /\ h_log2 \in SteadyRounds /\ h_log2' # h_log2)
              => /\ h_log2' = h_log2 + 1
                 /\ previous_log2' = previous_log2
                 /\ params_log2_ret' = <<>>]_vars
    /\ EventuallyIncreases ~> (params_ret # <<>> /\ params_log2_ret # <<>>)

\* C16's case: on bin counts that are not zero and never increase, the
\* search has been through every round followed and has not returned.
ReturnsOnlyOnIncreaseWitness ==
    /\ NeverIncreases
    /\ Current(1) # 0
    /\ h = MaxSearch + 1
    /\ previous # <<>>
    /\ params_ret = <<>>

\* C16's other case: on bin counts that rise from round MaxRounds on only,
\* the search returned in the first round after MaxRounds.
ReturnsOnIncreaseWitness ==
    /\ EventuallyIncreases
    /\ \A r \in 1..(MaxRounds - 1) : Current(r + 1) <= Current(r)
    /\ h = MaxRounds + 1
    /\ params_ret = <<Current(MaxRounds), MaxRounds>>

====
